---- MODULE Spec2Model ----
(***************************************************************************)
(* Model of the conflict-marker resolver of the GitHub Merge Conflict      *)
(* Helper (src/content.js, class MergeConflictHelper).                     *)
(*                                                                         *)
(* A text is a sequence of one-character strings; a line is the same.      *)
(* Indices i, j, k, middleIndex, endIndex are 0-based as in the source;    *)
(* At(lines, k) reads lines[k].                                            *)
(***************************************************************************)
EXTENDS Integers, Sequences, FiniteSets, TLC

VARIABLES
    content,        \* the text of the editor textarea (getContent())
    choice,         \* the policy of the click: "current" | "incoming" | "both"
    pc,             \* position of the run: idle, counted, scan, done, final
    lines,          \* processConflicts: const lines
    i,              \* processConflicts: let i
    resolvedLines,  \* processConflicts: const resolvedLines
    origin,         \* for each pushed line, the index k of lines it was read from
    regions,        \* the (i, middleIndex, endIndex) triples that took the resolve branch
    result,         \* the text returned by processConflicts
    conflictCount,  \* getConflictCount() of the input text
    resolvedCount,  \* getConflictCount() of the resolved text
    detected,       \* hasConflicts() of the input text
    resolvedContent, \* this.resolvedContent
    clipboard,      \* the text of the system clipboard
    status,         \* the message of .merge-helper-status (updateStatus)
    pending,        \* copyToClipboard calls awaiting navigator.clipboard.writeText
    display,        \* innerHTML text of .merge-helper-display, or NoDisplay
    currentBranch,  \* this.currentBranch
    incomingBranch, \* this.incomingBranch
    localCurrent,   \* detectBranches: let currentBranch
    localIncoming,  \* detectBranches: let incomingBranch
    page,           \* for each branch selector, the textContent of its elements
    pageMerge       \* the groups of "merge X into Y" in the page text, or <<>>

coreVars == <<pc, lines, i, resolvedLines, origin, regions, result,
              conflictCount, resolvedCount, detected>>

uiVars == <<resolvedContent, clipboard, status, pending, display>>

branchVars == <<currentBranch, incomingBranch, localCurrent, localIncoming, page, pageMerge>>

vars == <<content, choice, coreVars, uiVars, branchVars>>

----------------------------------------------------------------------------
(* Bounds of the explored inputs *)

MaxLines == 4

MaxBasicLines == 6

MaxFairLines == 4

MaxUIBlocks == 1

MaxChoiceBlocks == 2

MaxPending == 2

MaxPageElements == 2

MaxBranchLines == 2

----------------------------------------------------------------------------
(* Marker literals and the line vocabulary the inputs are built from *)

NL == "\n"

StartMarker == <<"<", "<", "<", "<", "<", "<", "<">>

SepMarker == <<"=", "=", "=", "=", "=", "=", "=">>

EndMarker == <<">", ">", ">", ">", ">", ">", ">">>

LineStart == StartMarker \o <<" ", "a">>

LineSep == SepMarker

LineEnd == EndMarker \o <<" ", "b">>

LinePlain == <<"x">>

LineIndentSep == <<" ">> \o SepMarker

LineIndentEnd == <<" ">> \o EndMarker

LineMidStart == <<"x">> \o StartMarker

BasicVocab == {LineStart, LineSep, LineEnd, LinePlain}

Vocab == BasicVocab \cup {LineIndentSep, LineIndentEnd, LineMidStart}

Policies == {"current", "incoming", "both"}

----------------------------------------------------------------------------
(* String primitives of JavaScript used by the resolver *)

At(s, k) == s[k + 1]

IsWhitespace(c) == c \in {" ", "\t", "\r", "\n"}

StartsWith(s, p) == Len(s) >= Len(p) /\ SubSeq(s, 1, Len(p)) = p

Includes(s, p) == \E k \in 1..(Len(s) - Len(p) + 1) : SubSeq(s, k, k + Len(p) - 1) = p

RECURSIVE TrimStart(_)
TrimStart(s) ==
    IF s # <<>> /\ IsWhitespace(Head(s)) THEN TrimStart(Tail(s)) ELSE s

RECURSIVE TrimEnd(_)
TrimEnd(s) ==
    IF s # <<>> /\ IsWhitespace(s[Len(s)]) THEN TrimEnd(SubSeq(s, 1, Len(s) - 1)) ELSE s

Trim(s) == TrimEnd(TrimStart(s))

RECURSIVE SplitLoop(_, _, _, _)
SplitLoop(s, k, cur, acc) ==
    IF k > Len(s) THEN Append(acc, cur)
    ELSE IF s[k] = NL THEN SplitLoop(s, k + 1, <<>>, Append(acc, cur))
    ELSE SplitLoop(s, k + 1, Append(cur, s[k]), acc)

Split(s) == SplitLoop(s, 1, <<>>, <<>>)

(* variant: a newline after every line instead of between lines *)
RECURSIVE JoinTrailing(_)
JoinTrailing(ls) ==
    IF ls = <<>> THEN <<>> ELSE ls[1] \o <<NL>> \o JoinTrailing(Tail(ls))

RECURSIVE Join(_)
Join(ls) ==
    IF ls = <<>> THEN <<>>
    ELSE IF Len(ls) = 1 THEN ls[1]
    ELSE ls[1] \o <<NL>> \o Join(Tail(ls))

RECURSIVE MatchCount(_, _, _)
MatchCount(s, p, k) ==
    IF k + Len(p) - 1 > Len(s) THEN 0
    ELSE IF SubSeq(s, k, k + Len(p) - 1) = p THEN 1 + MatchCount(s, p, k + Len(p))
    ELSE MatchCount(s, p, k + 1)

----------------------------------------------------------------------------
(* findConflictBoundaries(lines, startIndex) *)

(* variant: the end marker is tested on the untrimmed line *)
RECURSIVE BoundaryLoopNoTrim(_, _, _)
BoundaryLoopNoTrim(ls, j, middleIndex) ==
    IF j >= Len(ls) THEN [middleIndex |-> middleIndex, endIndex |-> -1]
    ELSE LET line == Trim(At(ls, j)) IN
         IF line = SepMarker THEN BoundaryLoopNoTrim(ls, j + 1, j)
         ELSE IF StartsWith(At(ls, j), EndMarker)
              THEN [middleIndex |-> middleIndex, endIndex |-> j]
              ELSE BoundaryLoopNoTrim(ls, j + 1, middleIndex)

(* variant: an end marker met before any separator does not stop the search *)
RECURSIVE BoundaryLoopSkipUnpaired(_, _, _)
BoundaryLoopSkipUnpaired(ls, j, middleIndex) ==
    IF j >= Len(ls) THEN [middleIndex |-> middleIndex, endIndex |-> -1]
    ELSE LET line == Trim(At(ls, j)) IN
         IF line = SepMarker THEN BoundaryLoopSkipUnpaired(ls, j + 1, j)
         ELSE IF StartsWith(line, EndMarker) /\ middleIndex # -1
              THEN [middleIndex |-> middleIndex, endIndex |-> j]
              ELSE BoundaryLoopSkipUnpaired(ls, j + 1, middleIndex)

RECURSIVE BoundaryLoop(_, _, _)
BoundaryLoop(ls, j, middleIndex) ==
    IF j >= Len(ls) THEN [middleIndex |-> middleIndex, endIndex |-> -1]
    ELSE LET line == Trim(At(ls, j)) IN
         IF line = SepMarker THEN BoundaryLoop(ls, j + 1, j)
         ELSE IF StartsWith(line, EndMarker)
              THEN [middleIndex |-> middleIndex, endIndex |-> j]
              ELSE BoundaryLoop(ls, j + 1, middleIndex)

findConflictBoundaries(ls, startIndex) == BoundaryLoop(ls, startIndex + 1, -1)

(* the indices k pushed for a resolved region, by policy *)
Range(a, b) == [n \in 1..(IF b > a THEN b - a ELSE 0) |-> a + n - 1]

(* variant: the side loops start on the marker line (k = i, k = middleIndex) *)
KeptIndicesFromMarker(ch, start, middleIndex, endIndex) ==
    IF ch = "current" THEN Range(start, middleIndex)
    ELSE IF ch = "incoming" THEN Range(middleIndex, endIndex)
    ELSE IF ch = "both" THEN Range(start, middleIndex) \o Range(middleIndex, endIndex)
    ELSE <<>>

(* variant: no else between the branches, both sides are pushed for every choice *)
KeptIndicesBothAlways(ch, start, middleIndex, endIndex) ==
    Range(start + 1, middleIndex) \o Range(middleIndex + 1, endIndex)

(* variant: the two sides exchanged *)
KeptIndicesSwapped(ch, start, middleIndex, endIndex) ==
    IF ch = "current" THEN Range(middleIndex + 1, endIndex)
    ELSE IF ch = "incoming" THEN Range(start + 1, middleIndex)
    ELSE IF ch = "both" THEN Range(start + 1, middleIndex) \o Range(middleIndex + 1, endIndex)
    ELSE <<>>

(* variant: Keep Both pushes the current side only *)
KeptIndicesBothAsCurrent(ch, start, middleIndex, endIndex) ==
    IF ch = "current" THEN Range(start + 1, middleIndex)
    ELSE IF ch = "incoming" THEN Range(middleIndex + 1, endIndex)
    ELSE IF ch = "both" THEN Range(start + 1, middleIndex)
    ELSE <<>>

(* variant: a final else, every other choice keeps the incoming side *)
KeptIndicesElseIncoming(ch, start, middleIndex, endIndex) ==
    IF ch = "current" THEN Range(start + 1, middleIndex)
    ELSE IF ch = "both" THEN Range(start + 1, middleIndex) \o Range(middleIndex + 1, endIndex)
    ELSE Range(middleIndex + 1, endIndex)

KeptIndices(ch, start, middleIndex, endIndex) ==
    IF ch = "current" THEN Range(start + 1, middleIndex)
    ELSE IF ch = "incoming" THEN Range(middleIndex + 1, endIndex)
    ELSE IF ch = "both" THEN Range(start + 1, middleIndex) \o Range(middleIndex + 1, endIndex)
    ELSE <<>>

(* variant: start-marker lines of a side are pushed as empty lines *)
LinesAtBlankMarkers(ls, ks) ==
    [n \in 1..Len(ks) |->
        IF StartsWith(At(ls, ks[n]), StartMarker) THEN <<>> ELSE At(ls, ks[n])]

LinesAt(ls, ks) == [n \in 1..Len(ks) |-> At(ls, ks[n])]

(* variant: the start marker is looked for anywhere in the line *)
IsStartLineAnywhere(line) == Includes(line, StartMarker)

IsStartLine(line) == StartsWith(line, StartMarker)

(* variant: only the end marker is required *)
FoundEndOnly(b) == b.endIndex # -1

Found(b) == b.middleIndex # -1 /\ b.endIndex # -1

(* variant: the scan resumes on the end-marker line (i = endIndex) *)
ScanStepKeepEnd(ls, ch, st) ==
    LET line == At(ls, st.i)
        b    == findConflictBoundaries(ls, st.i)
    IN  IF IsStartLine(line) /\ Found(b)
        THEN LET ks == KeptIndices(ch, st.i, b.middleIndex, b.endIndex) IN
             [i |-> b.endIndex,
              out |-> st.out \o LinesAt(ls, ks),
              origin |-> st.origin \o ks]
        ELSE [i |-> st.i + 1,
              out |-> Append(st.out, line),
              origin |-> Append(st.origin, st.i)]

(* variant: the scan resumes after the separator (i = middleIndex + 1) *)
ScanStepResumeAfterSep(ls, ch, st) ==
    LET line == At(ls, st.i)
        b    == findConflictBoundaries(ls, st.i)
    IN  IF IsStartLine(line) /\ Found(b)
        THEN LET ks == KeptIndices(ch, st.i, b.middleIndex, b.endIndex) IN
             [i |-> b.middleIndex + 1,
              out |-> st.out \o LinesAt(ls, ks),
              origin |-> st.origin \o ks]
        ELSE [i |-> st.i + 1,
              out |-> Append(st.out, line),
              origin |-> Append(st.origin, st.i)]

(* variant: lines outside regions are pushed trimmed *)
ScanStepTrimmed(ls, ch, st) ==
    LET line == At(ls, st.i)
        b    == findConflictBoundaries(ls, st.i)
    IN  IF IsStartLine(line) /\ Found(b)
        THEN LET ks == KeptIndices(ch, st.i, b.middleIndex, b.endIndex) IN
             [i |-> b.endIndex + 1,
              out |-> st.out \o LinesAt(ls, ks),
              origin |-> st.origin \o ks]
        ELSE [i |-> st.i + 1,
              out |-> Append(st.out, Trim(line)),
              origin |-> Append(st.origin, st.i)]

(* variant: a start marker without boundaries is skipped, not pushed *)
ScanStepDropMalformed(ls, ch, st) ==
    LET line == At(ls, st.i)
        b    == findConflictBoundaries(ls, st.i)
    IN  IF IsStartLine(line) /\ Found(b)
        THEN LET ks == KeptIndices(ch, st.i, b.middleIndex, b.endIndex) IN
             [i |-> b.endIndex + 1,
              out |-> st.out \o LinesAt(ls, ks),
              origin |-> st.origin \o ks]
        ELSE IF IsStartLine(line)
        THEN [i |-> st.i + 1, out |-> st.out, origin |-> st.origin]
        ELSE [i |-> st.i + 1,
              out |-> Append(st.out, line),
              origin |-> Append(st.origin, st.i)]

(* one iteration of the while loop of processConflicts *)
ScanStep(ls, ch, st) ==
    LET line == At(ls, st.i)
        b    == findConflictBoundaries(ls, st.i)
    IN  IF IsStartLine(line) /\ Found(b)
        THEN LET ks == KeptIndices(ch, st.i, b.middleIndex, b.endIndex) IN
             [i |-> b.endIndex + 1,
              out |-> st.out \o LinesAt(ls, ks),
              origin |-> st.origin \o ks]
        ELSE [i |-> st.i + 1,
              out |-> Append(st.out, line),
              origin |-> Append(st.origin, st.i)]

RECURSIVE ScanLoop(_, _, _)
ScanLoop(ls, ch, st) ==
    IF st.i < Len(ls) THEN ScanLoop(ls, ch, ScanStep(ls, ch, st)) ELSE st

processConflicts(text, ch) ==
    Join(ScanLoop(Split(text), ch, [i |-> 0, out |-> <<>>, origin |-> <<>>]).out)

(* processConflicts of src/unnamed/part_000: if (choice === "current") ... else ... *)
KeptIndicesPart000(ch, start, middleIndex, endIndex) ==
    IF ch = "current" THEN Range(start + 1, middleIndex)
    ELSE Range(middleIndex + 1, endIndex)

ScanStepPart000(ls, ch, st) ==
    LET line == At(ls, st.i)
        b    == findConflictBoundaries(ls, st.i)
    IN  IF StartsWith(line, StartMarker) /\ b.middleIndex # -1 /\ b.endIndex # -1
        THEN LET ks == KeptIndicesPart000(ch, st.i, b.middleIndex, b.endIndex) IN
             [i |-> b.endIndex + 1,
              out |-> st.out \o LinesAt(ls, ks),
              origin |-> st.origin \o ks]
        ELSE [i |-> st.i + 1,
              out |-> Append(st.out, line),
              origin |-> Append(st.origin, st.i)]

RECURSIVE ScanLoopPart000(_, _, _)
ScanLoopPart000(ls, ch, st) ==
    IF st.i < Len(ls) THEN ScanLoopPart000(ls, ch, ScanStepPart000(ls, ch, st)) ELSE st

processConflictsPart000(text, ch) ==
    Join(ScanLoopPart000(Split(text), ch, [i |-> 0, out |-> <<>>, origin |-> <<>>]).out)

(* processConflicts of src/unnamed/part_001 *)
KeptIndicesPart001(ch, start, middleIndex, endIndex) ==
    IF ch = "current" THEN Range(start + 1, middleIndex)
    ELSE Range(middleIndex + 1, endIndex)

ScanStepPart001(ls, ch, st) ==
    LET line == At(ls, st.i)
        b    == findConflictBoundaries(ls, st.i)
    IN  IF StartsWith(line, StartMarker) /\ b.middleIndex # -1 /\ b.endIndex # -1
        THEN LET ks == KeptIndicesPart001(ch, st.i, b.middleIndex, b.endIndex) IN
             [i |-> b.endIndex + 1,
              out |-> st.out \o LinesAt(ls, ks),
              origin |-> st.origin \o ks]
        ELSE [i |-> st.i + 1,
              out |-> Append(st.out, line),
              origin |-> Append(st.origin, st.i)]

RECURSIVE ScanLoopPart001(_, _, _)
ScanLoopPart001(ls, ch, st) ==
    IF st.i < Len(ls) THEN ScanLoopPart001(ls, ch, ScanStepPart001(ls, ch, st)) ELSE st

processConflictsPart001(text, ch) ==
    Join(ScanLoopPart001(Split(text), ch, [i |-> 0, out |-> <<>>, origin |-> <<>>]).out)

(* variant: the lines that start with the start marker are counted *)
getConflictCountLines(text) ==
    Cardinality({k \in DOMAIN Split(text) : StartsWith(Split(text)[k], StartMarker)})

getConflictCount(text) == MatchCount(text, StartMarker, 1)

(* variant: the separator is not looked for *)
hasConflictsNoSep(text) == Includes(text, StartMarker) /\ Includes(text, EndMarker)

hasConflicts(text) ==
    Includes(text, StartMarker) /\ Includes(text, SepMarker) /\ Includes(text, EndMarker)

(* escapeHtml: div.textContent = text; return div.innerHTML *)
RECURSIVE escapeHtml(_)
escapeHtml(text) ==
    IF text = <<>> THEN <<>>
    ELSE LET c == Head(text) IN
         (IF c = "&" THEN <<"&", "a", "m", "p", ";">>
          ELSE IF c = "<" THEN <<"&", "l", "t", ";">>
          ELSE IF c = ">" THEN <<"&", "g", "t", ";">>
          ELSE <<c>>) \o escapeHtml(Tail(text))

(* detectBranches: the default names and the branch selectors *)
NameCurrent == <<"c", "u", "r", "r", "e", "n", "t">>

NameIncoming == <<"i", "n", "c", "o", "m", "i", "n", "g">>

Selectors == 1..2

(* line.match(/^MARKER (.+)$/): the captured group, or NoMatch *)
NoMatch == <<"no match">>

MarkerLabel(line, marker) ==
    IF StartsWith(line, marker \o <<" ">>) /\ Len(line) > Len(marker) + 1
    THEN SubSeq(line, Len(marker) + 2, Len(line))
    ELSE NoMatch

(* the for loop over the lines: the last labelled marker of each kind wins *)
RECURSIVE LabelLoop(_, _, _)
LabelLoop(ls, marker, name) ==
    IF ls = <<>> THEN name
    ELSE LET g == MarkerLabel(Head(ls), marker) IN
         LabelLoop(Tail(ls), marker, IF g # NoMatch THEN Trim(g) ELSE name)

(* elements[n].textContent?.trim() || dflt *)
TextOrDefault(t, dflt) == IF Trim(t) = <<>> THEN dflt ELSE Trim(t)

(* the first selector with at least two elements, or 0 *)
FirstSelector(pg) ==
    IF \E sel \in Selectors : Len(pg[sel]) >= 2
    THEN CHOOSE sel \in Selectors :
            /\ Len(pg[sel]) >= 2
            /\ \A t \in Selectors : t < sel => Len(pg[t]) < 2
    ELSE 0

(* values of the helper outside a resolve call *)
Undefined == <<"undefined">>

NoDisplay == <<"no display">>

NoStatus == [kind |-> "none", choice |-> "none"]

----------------------------------------------------------------------------
(* Inputs *)

(* the helper before detectBranches has run, on a page without branch elements *)
BranchesUnset ==
    /\ currentBranch = Undefined
    /\ incomingBranch = Undefined
    /\ localCurrent = Undefined
    /\ localIncoming = Undefined
    /\ page = [sel \in Selectors |-> <<>>]
    /\ pageMerge = <<>>

RECURSIVE TextOf(_)
TextOf(ls) == IF Len(ls) = 1 THEN ls[1] ELSE ls[1] \o <<NL>> \o TextOf(Tail(ls))

TextsOver(V, n) == {TextOf(ls) : ls \in UNION {[1..m -> V] : m \in 1..n}}

Texts == {<<>>} \cup TextsOver(Vocab, MaxLines)

BasicTexts == {<<>>} \cup TextsOver(BasicVocab, MaxBasicLines)

FairTexts == {<<>>} \cup TextsOver(BasicVocab, MaxFairLines)

InitWith(T) ==
    /\ content \in T
    /\ choice \in Policies
    /\ pc = "idle"
    /\ lines = <<>>
    /\ i = 0
    /\ resolvedLines = <<>>
    /\ origin = <<>>
    /\ regions = <<>>
    /\ result = <<>>
    /\ conflictCount = -1
    /\ resolvedCount = -1
    /\ detected = FALSE
    /\ resolvedContent = Undefined
    /\ clipboard = <<>>
    /\ status = NoStatus
    /\ pending = <<>>
    /\ display = NoDisplay
    /\ BranchesUnset

Init == InitWith(Texts)

InitBasic == InitWith(BasicTexts)

InitFair == InitWith(FairTexts)

(* texts built from blocks, a block being a plain
   line, a lone start marker, an empty conflict or a conflict with two
   different sides *)
LineOther == <<"y">>

UIBlocks ==
    { <<LinePlain>>,
      <<LineStart>>,
      <<LineStart, LineSep, LineEnd>>,
      <<LineStart, LinePlain, LineSep, LineOther, LineEnd>> }

RECURSIVE Flatten(_)
Flatten(bs) == IF bs = <<>> THEN <<>> ELSE Head(bs) \o Flatten(Tail(bs))

BlockTexts(n) ==
    {<<>>} \cup {TextOf(Flatten(bs)) : bs \in UNION {[1..m -> UIBlocks] : m \in 1..n}}

UITexts == BlockTexts(MaxUIBlocks)

(* the page after setupHelper: buttons added, nothing clicked yet *)
InitUI ==
    /\ content \in UITexts
    /\ choice = "none"
    /\ pc = "idle"
    /\ lines = <<>>
    /\ i = 0
    /\ resolvedLines = <<>>
    /\ origin = <<>>
    /\ regions = <<>>
    /\ result = <<>>
    /\ conflictCount = -1
    /\ resolvedCount = -1
    /\ detected = FALSE
    /\ resolvedContent = Undefined
    /\ clipboard = <<>>
    /\ status = NoStatus
    /\ pending = <<>>
    /\ display = NoDisplay
    /\ BranchesUnset

(* processConflicts called with any string as choice *)
Choices == Policies \cup {"other"}

InitAnyChoice ==
    /\ content \in BlockTexts(MaxChoiceBlocks)
    /\ choice \in Choices
    /\ pc = "idle"
    /\ lines = <<>>
    /\ i = 0
    /\ resolvedLines = <<>>
    /\ origin = <<>>
    /\ regions = <<>>
    /\ result = <<>>
    /\ conflictCount = -1
    /\ resolvedCount = -1
    /\ detected = FALSE
    /\ resolvedContent = Undefined
    /\ clipboard = <<>>
    /\ status = NoStatus
    /\ pending = <<>>
    /\ display = NoDisplay
    /\ BranchesUnset

----------------------------------------------------------------------------
(* Actions *)

(* updateConflictStatus: hasConflicts and the count of the editor text *)
GetConflictCount ==
    /\ pc = "idle"
    /\ detected' = hasConflicts(content)
    /\ conflictCount' = getConflictCount(content)
    /\ pc' = "counted"
    /\ UNCHANGED <<content, choice, lines, i, resolvedLines, origin, regions,
                   result, resolvedCount>>
    /\ UNCHANGED uiVars
    /\ UNCHANGED branchVars

(* processConflicts entry: split, empty output, i = 0 *)
ProcessConflicts ==
    /\ pc = "counted"
    /\ lines' = Split(content)
    /\ resolvedLines' = <<>>
    /\ origin' = <<>>
    /\ regions' = <<>>
    /\ i' = 0
    /\ pc' = "scan"
    /\ UNCHANGED <<content, choice, result, conflictCount, resolvedCount, detected>>
    /\ UNCHANGED uiVars
    /\ UNCHANGED branchVars

(* loop body, line does not start with the start marker *)
PassThrough ==
    /\ pc = "scan"
    /\ i < Len(lines)
    /\ ~IsStartLine(At(lines, i))
    /\ LET st == ScanStep(lines, choice, [i |-> i, out |-> resolvedLines, origin |-> origin]) IN
        /\ i' = st.i
        /\ resolvedLines' = st.out
        /\ origin' = st.origin
    /\ UNCHANGED <<content, choice, pc, lines, regions, result, conflictCount, resolvedCount,
                   detected>>
    /\ UNCHANGED uiVars
    /\ UNCHANGED branchVars

(* loop body, start marker with both boundaries found *)
ResolveRegion ==
    /\ pc = "scan"
    /\ i < Len(lines)
    /\ IsStartLine(At(lines, i))
    /\ LET b  == findConflictBoundaries(lines, i)
           st == ScanStep(lines, choice, [i |-> i, out |-> resolvedLines, origin |-> origin])
       IN
        /\ Found(b)
        /\ i' = st.i
        /\ resolvedLines' = st.out
        /\ origin' = st.origin
        /\ regions' = Append(regions, [s |-> i, m |-> b.middleIndex, e |-> b.endIndex])
    /\ UNCHANGED <<content, choice, pc, lines, result, conflictCount, resolvedCount, detected>>
    /\ UNCHANGED uiVars
    /\ UNCHANGED branchVars

(* loop body, start marker without both boundaries *)
MalformedStart ==
    /\ pc = "scan"
    /\ i < Len(lines)
    /\ IsStartLine(At(lines, i))
    /\ ~Found(findConflictBoundaries(lines, i))
    /\ LET st == ScanStep(lines, choice, [i |-> i, out |-> resolvedLines, origin |-> origin]) IN
        /\ i' = st.i
        /\ resolvedLines' = st.out
        /\ origin' = st.origin
    /\ UNCHANGED <<content, choice, pc, lines, regions, result, conflictCount, resolvedCount,
                   detected>>
    /\ UNCHANGED uiVars
    /\ UNCHANGED branchVars

(* loop exit: return resolvedLines.join("\n") *)
ReturnResolved ==
    /\ pc = "scan"
    /\ i >= Len(lines)
    /\ result' = Join(resolvedLines)
    /\ pc' = "done"
    /\ UNCHANGED <<content, choice, lines, i, resolvedLines, origin, regions,
                   conflictCount, resolvedCount, detected>>
    /\ UNCHANGED uiVars
    /\ UNCHANGED branchVars

(* the count of the resolved text *)
CountResolved ==
    /\ pc = "done"
    /\ resolvedCount' = getConflictCount(result)
    /\ pc' = "final"
    /\ UNCHANGED <<content, choice, lines, i, resolvedLines, origin, regions,
                   result, conflictCount, detected>>
    /\ UNCHANGED uiVars
    /\ UNCHANGED branchVars

----------------------------------------------------------------------------
(* Handlers of the helper's buttons and of the clipboard promise *)

(* JavaScript truthiness of this.resolvedContent *)
Falsy(v) == v = Undefined \/ v = <<>>

(* variant: the resolved text is also written into the editor textarea *)
ResolveConflictsWriteBack(ch) ==
    /\ Len(pending) < MaxPending
    /\ choice' = ch
    /\ IF ~Includes(content, StartMarker)
       THEN /\ status' = [kind |-> "noConflicts", choice |-> "none"]
            /\ UNCHANGED <<content, resolvedContent, pending>>
       ELSE LET resolved == processConflicts(content, ch) IN
            /\ resolvedContent' = resolved
            /\ content' = resolved
            /\ pending' = Append(pending, [content |-> resolved, choice |-> ch])
            /\ UNCHANGED status
    /\ UNCHANGED <<clipboard, display>>
    /\ UNCHANGED coreVars
    /\ UNCHANGED branchVars

(* variant: no test for the start marker before resolving *)
ResolveConflictsNoGuard(ch) ==
    /\ Len(pending) < MaxPending
    /\ choice' = ch
    /\ LET resolved == processConflicts(content, ch) IN
            /\ resolvedContent' = resolved
            /\ pending' = Append(pending, [content |-> resolved, choice |-> ch])
            /\ UNCHANGED status
    /\ UNCHANGED <<content, clipboard, display>>
    /\ UNCHANGED coreVars
    /\ UNCHANGED branchVars

(* click on Accept All Current / Accept All Incoming / Keep Both:
   resolveConflicts(choice), and copyToClipboard up to its await *)
ResolveConflicts(ch) ==
    /\ Len(pending) < MaxPending
    /\ choice' = ch
    /\ IF ~Includes(content, StartMarker)
       THEN /\ status' = [kind |-> "noConflicts", choice |-> "none"]
            /\ UNCHANGED <<resolvedContent, pending>>
       ELSE LET resolved == processConflicts(content, ch) IN
            /\ resolvedContent' = resolved
            /\ pending' = Append(pending, [content |-> resolved, choice |-> ch])
            /\ UNCHANGED status
    /\ UNCHANGED <<content, clipboard, display>>
    /\ UNCHANGED coreVars
    /\ UNCHANGED branchVars

(* the sequence without its n-th element *)
RemoveAt(sq, n) == SubSeq(sq, 1, n - 1) \o SubSeq(sq, n + 1, Len(sq))

(* navigator.clipboard.writeText(content) resolves: the rest of the try block.
   Each call awaits its own promise and nothing in the helper orders them,
   so any of the calls in flight may be the one that continues. *)
ClipboardWritten ==
    \E n \in DOMAIN pending :
        /\ clipboard' = pending[n].content
        /\ status' = [kind |-> "copied", choice |-> pending[n].choice]
        /\ pending' = RemoveAt(pending, n)
    /\ UNCHANGED <<content, choice, resolvedContent, display>>
    /\ UNCHANGED coreVars
    /\ UNCHANGED branchVars

(* navigator.clipboard.writeText(content) rejects: the catch block calls
   this.fallbackCopy, which is the class's last definition of that name;
   execCommand returns true, returns false, or throws *)
ClipboardRejected ==
    /\ \E n \in DOMAIN pending : pending' = RemoveAt(pending, n)
    /\ \E outcome \in {"true", "false", "throws"} :
        /\ clipboard' = IF outcome = "true" THEN resolvedContent ELSE clipboard
        /\ status' = IF outcome = "throws"
                     THEN [kind |-> "copyFailed", choice |-> "none"]
                     ELSE [kind |-> "contentCopied", choice |-> "none"]
    /\ UNCHANGED <<content, choice, resolvedContent, display>>
    /\ UNCHANGED coreVars
    /\ UNCHANGED branchVars

(* click on Show Resolved: showResolvedContent *)
ShowResolved ==
    /\ IF Falsy(resolvedContent)
       THEN /\ status' = [kind |-> "noResolvedContent", choice |-> "none"]
            /\ UNCHANGED display
       ELSE /\ display' = escapeHtml(resolvedContent)
            /\ UNCHANGED status
    /\ UNCHANGED <<content, choice, resolvedContent, clipboard, pending>>
    /\ UNCHANGED coreVars
    /\ UNCHANGED branchVars

(* click on Copy Again in the display area *)
CopyAgain ==
    /\ display # NoDisplay
    /\ Len(pending) < MaxPending
    /\ pending' = Append(pending, [content |-> resolvedContent, choice |-> "manual"])
    /\ UNCHANGED <<content, choice, resolvedContent, clipboard, status, display>>
    /\ UNCHANGED coreVars
    /\ UNCHANGED branchVars

(* click on Hide in the display area *)
HideResolved ==
    /\ display # NoDisplay
    /\ display' = NoDisplay
    /\ UNCHANGED <<content, choice, resolvedContent, clipboard, status, pending>>
    /\ UNCHANGED coreVars
    /\ UNCHANGED branchVars

NextUI ==
    \/ \E ch \in Policies : ResolveConflicts(ch)
    \/ ClipboardWritten
    \/ ClipboardRejected
    \/ ShowResolved
    \/ CopyAgain
    \/ HideResolved

SpecUI == InitUI /\ [][NextUI]_vars

----------------------------------------------------------------------------
(* detectBranches, called by setupHelper *)

BranchNames == {<<"m">>, <<"f">>, <<" ">>}

ElementLists == UNION {[1..n -> BranchNames] : n \in 0..MaxPageElements}

BranchVocab == {LineStart, StartMarker, LineEnd, LinePlain}

BranchTexts == {<<>>} \cup TextsOver(BranchVocab, MaxBranchLines)

InitBranches ==
    /\ content \in BranchTexts
    /\ choice = "none"
    /\ pc = "detect"
    /\ lines = <<>>
    /\ i = 0
    /\ resolvedLines = <<>>
    /\ origin = <<>>
    /\ regions = <<>>
    /\ result = <<>>
    /\ conflictCount = -1
    /\ resolvedCount = -1
    /\ detected = FALSE
    /\ resolvedContent = Undefined
    /\ clipboard = <<>>
    /\ status = NoStatus
    /\ pending = <<>>
    /\ display = NoDisplay
    /\ currentBranch = Undefined
    /\ incomingBranch = Undefined
    /\ localCurrent = Undefined
    /\ localIncoming = Undefined
    /\ page \in [Selectors -> ElementLists]
    /\ pageMerge \in {<<>>, << <<"f">>, <<"m">> >>}

(* Method 1: the names of the labelled markers of the editor text *)
ExtractFromMarkers ==
    /\ pc = "detect"
    /\ localCurrent' = LabelLoop(Split(content), StartMarker, NameCurrent)
    /\ localIncoming' = LabelLoop(Split(content), EndMarker, NameIncoming)
    /\ pc' = IF localCurrent' = NameCurrent \/ localIncoming' = NameIncoming
             THEN "page" ELSE "assign"
    /\ UNCHANGED <<content, choice, lines, i, resolvedLines, origin, regions, result,
                   conflictCount, resolvedCount, detected>>
    /\ UNCHANGED <<currentBranch, incomingBranch, page, pageMerge>>
    /\ UNCHANGED uiVars

(* Method 2: detectBranchesFromPage *)
DetectBranchesFromPage ==
    /\ pc = "page"
    /\ LET sel == FirstSelector(page) IN
        IF sel # 0
        THEN /\ currentBranch' = TextOrDefault(page[sel][1], NameCurrent)
             /\ incomingBranch' = TextOrDefault(page[sel][2], NameIncoming)
        ELSE IF pageMerge # <<>>
        THEN /\ incomingBranch' = pageMerge[1]
             /\ currentBranch' = pageMerge[2]
        ELSE UNCHANGED <<currentBranch, incomingBranch>>
    /\ pc' = "url"
    /\ UNCHANGED <<content, choice, lines, i, resolvedLines, origin, regions, result,
                   conflictCount, resolvedCount, detected>>
    /\ UNCHANGED <<localCurrent, localIncoming, page, pageMerge>>
    /\ UNCHANGED uiVars

(* Method 3: detectBranchesFromURL only writes a debug message *)
DetectBranchesFromURL ==
    /\ pc = "url"
    /\ pc' = "assign"
    /\ UNCHANGED <<content, choice, lines, i, resolvedLines, origin, regions, result,
                   conflictCount, resolvedCount, detected>>
    /\ UNCHANGED branchVars
    /\ UNCHANGED uiVars

(* this.currentBranch = currentBranch; this.incomingBranch = incomingBranch *)
AssignBranches ==
    /\ pc = "assign"
    /\ currentBranch' = localCurrent
    /\ incomingBranch' = localIncoming
    /\ pc' = "detected"
    /\ UNCHANGED <<content, choice, lines, i, resolvedLines, origin, regions, result,
                   conflictCount, resolvedCount, detected>>
    /\ UNCHANGED <<localCurrent, localIncoming, page, pageMerge>>
    /\ UNCHANGED uiVars

NextBranches ==
    \/ ExtractFromMarkers
    \/ DetectBranchesFromPage
    \/ DetectBranchesFromURL
    \/ AssignBranches

SpecBranches == InitBranches /\ [][NextBranches]_vars

Next ==
    \/ GetConflictCount
    \/ ProcessConflicts
    \/ PassThrough
    \/ ResolveRegion
    \/ MalformedStart
    \/ ReturnResolved
    \/ CountResolved

Spec == Init /\ [][Next]_vars

SpecBasic == InitBasic /\ [][Next]_vars

SpecAnyChoice == InitAnyChoice /\ [][Next]_vars

(* processConflicts is synchronous: once called it runs to its return *)
SpecFair == InitFair /\ [][Next]_vars /\ WF_vars(Next)

TypeOK ==
    /\ pc \in {"idle", "counted", "scan", "done", "final"}
    /\ choice \in Policies
    /\ i \in 0..(Len(lines) + 1)

----------------------------------------------------------------------------
(* Vocabulary of the properties *)

StartLine(line) == Len(line) >= 7 /\ \A n \in 1..7 : line[n] = "<"

SepLine(line) == Trim(line) = SepMarker

EndLine(line) == StartsWith(Trim(line), EndMarker)

MarkerFormLine(line) ==
    line = SepMarker \/ StartsWith(line, StartMarker) \/ StartsWith(line, EndMarker)

LineIdx == 0..(Len(lines) - 1)

(* a separator line after k and an end-marker line after that separator *)
HasSepThenEnd(ls, k) ==
    \E m \in (k + 1)..(Len(ls) - 1) : \E e \in (m + 1)..(Len(ls) - 1) :
        SepLine(At(ls, m)) /\ EndLine(At(ls, e))

WellFormedText(ls) ==
    \A k \in 0..(Len(ls) - 1) : StartLine(At(ls, k)) => HasSepThenEnd(ls, k)

(* the marker lines of the text are start, separator, end, start, ... in
   this order, closing on an end marker: q = 0 outside a region, 1 on the
   current side, 2 on the incoming side *)
RECURSIVE MarkersInOrder(_, _, _)
MarkersInOrder(ls, k, q) ==
    IF k >= Len(ls) THEN q = 0
    ELSE IF StartLine(At(ls, k)) THEN q = 0 /\ MarkersInOrder(ls, k + 1, 1)
    ELSE IF SepLine(At(ls, k)) THEN q = 1 /\ MarkersInOrder(ls, k + 1, 2)
    ELSE IF EndLine(At(ls, k)) THEN q = 2 /\ MarkersInOrder(ls, k + 1, 0)
    ELSE MarkersInOrder(ls, k + 1, q)

Canonical(ls) == MarkersInOrder(ls, 0, 0)

RegionIdx == 1..Len(regions)

InRegion(k) == \E r \in RegionIdx : regions[r].s <= k /\ k <= regions[r].e

(* the integers strictly between a and b, ascending *)
Between(a, b) == [n \in 1..(IF b - a > 1 THEN b - a - 1 ELSE 0) |-> a + n]

Ascending(sq) == \A n1, n2 \in DOMAIN sq : n1 < n2 => sq[n1] < sq[n2]

OriginOf(r) == SelectSeq(origin, LAMBDA k : regions[r].s <= k /\ k <= regions[r].e)

----------------------------------------------------------------------------
(* C1 (as stated): for every policy and every text in which every line
   starting with <<<<<<< is followed by a separator line and then an
   end-marker line, the resolved text has no line equal to =======, no line
   starting with <<<<<<< and no line starting with >>>>>>>. *)
C1_MarkerEliminationAsStated ==
    (pc = "done" /\ WellFormedText(lines)) =>
        \A n \in DOMAIN Split(result) : ~MarkerFormLine(Split(result)[n])

(* C1 (amended): for every policy and every text whose marker lines (lines
   starting with <<<<<<<, lines whose trimmed value is =======, lines whose
   trimmed value starts with >>>>>>>) occur only in the order start,
   separator, end, start, ..., closing on an end marker, the resolved text
   has no line equal to =======, no line starting with <<<<<<< and no line
   starting with >>>>>>>. *)
C1_MarkerElimination ==
    (pc = "done" /\ Canonical(lines)) =>
        \A n \in DOMAIN Split(result) : ~MarkerFormLine(Split(result)[n])

C1_Witness ==
    /\ pc = "done"
    /\ Canonical(lines)
    /\ Len(regions) = 1
    /\ Len(lines) = 4
    /\ Len(resolvedLines) = 1

(* C2 (as stated): for every text and every policy, resolving the resolved
   text again with the same policy returns the resolved text. *)
C2_IdempotenceAsStated ==
    pc = "done" => processConflicts(result, choice) = result

(* C2 (amended): for every text and policy for which no line starting with
   <<<<<<< is copied to the output from inside a resolved region, resolving
   the resolved text again with the same policy returns the resolved text. *)
NestedStartKept ==
    \E n \in DOMAIN origin : InRegion(origin[n]) /\ StartLine(At(lines, origin[n]))

C2_Idempotence ==
    (pc = "done" /\ ~NestedStartKept) => processConflicts(result, choice) = result

C2_Witness ==
    /\ pc = "done"
    /\ ~NestedStartKept
    /\ Len(regions) >= 1
    /\ \E n \in DOMAIN resolvedLines : StartLine(resolvedLines[n])
    /\ processConflicts(result, choice) = result

(* C3: for every resolved region (s, m, e) the output receives, in place of
   lines s..e, exactly lines s+1..m-1 under current, lines m+1..e-1 under
   incoming, and s+1..m-1 followed by m+1..e-1 under both; the lines s, m
   and e are never emitted. *)
C3_PolicySemantics ==
    /\ Ascending(origin)
    /\ Len(resolvedLines) = Len(origin)
    /\ \A n \in DOMAIN origin : resolvedLines[n] = At(lines, origin[n])
    /\ \A r \in RegionIdx :
        LET s == regions[r].s
            m == regions[r].m
            e == regions[r].e
        IN  /\ choice = "current" => OriginOf(r) = Between(s, m)
            /\ choice = "incoming" => OriginOf(r) = Between(m, e)
            /\ choice = "both" => OriginOf(r) = Between(s, m) \o Between(m, e)

C3_Witness ==
    /\ pc = "done"
    /\ choice = "both"
    /\ Len(regions) = 1
    /\ regions[1].m > regions[1].s + 1
    /\ regions[1].e > regions[1].m + 1

(* C4: every input line outside all resolved regions appears in the output
   unchanged, exactly once, and in the input's relative order, for every
   policy. *)
C4_PassThrough ==
    pc = "done" =>
        /\ resolvedLines # <<>> => Split(result) = resolvedLines
        /\ \A k \in LineIdx : ~InRegion(k) =>
            /\ Cardinality({n \in DOMAIN origin : origin[n] = k}) = 1
            /\ \A n \in DOMAIN origin : origin[n] = k => resolvedLines[n] = At(lines, k)
        /\ Ascending(origin)

C4_Witness ==
    /\ pc = "done"
    /\ Len(regions) = 1
    /\ \E k \in LineIdx : ~InRegion(k) /\ At(lines, k) = LineIndentSep

(* C5 (as stated): for every resolved region the separator that splits the
   two sides is the FIRST line after the start marker whose trimmed value is
   =======. *)
C5_FirstSeparator ==
    \A r \in RegionIdx :
        /\ SepLine(At(lines, regions[r].m))
        /\ \A k \in (regions[r].s + 1)..(regions[r].m - 1) : ~SepLine(At(lines, k))

(* a start line the scan arrives at: not inside an earlier resolved region *)
Interior(k) == \E r \in RegionIdx : regions[r].s < k /\ k <= regions[r].e

ResolvedAt(k) ==
    /\ \E r \in RegionIdx : regions[r].s = k
    /\ \A n \in DOMAIN origin : origin[n] # k

(* the first end-marker line after k exists and a separator lies before it *)
HasSepBeforeFirstEnd(ls, k) ==
    \E e \in (k + 1)..(Len(ls) - 1) :
        /\ EndLine(At(ls, e))
        /\ \A j \in (k + 1)..(e - 1) : ~EndLine(At(ls, j))
        /\ \E m \in (k + 1)..(e - 1) : SepLine(At(ls, m))

(* C6 (as stated): whenever the scan reaches a start line that is followed
   by a separator line and, after that separator, by an end-marker line, the
   start is resolved as a region and not passed through, also when another
   end-marker line lies between the start marker and the separator. *)
C6_ResolvedAsStated ==
    pc = "done" =>
        \A k \in LineIdx :
            (StartLine(At(lines, k)) /\ ~Interior(k) /\ HasSepThenEnd(lines, k))
                => ResolvedAt(k)

(* C6 (amended): whenever the scan reaches a start line that is followed by
   a separator line and, after that separator, by an end-marker line, with
   no end-marker line between the start marker and the separator, the start
   is resolved as a region and not passed through. *)
C6_Resolved ==
    pc = "done" =>
        \A k \in LineIdx :
            (StartLine(At(lines, k)) /\ ~Interior(k) /\ HasSepBeforeFirstEnd(lines, k))
                => ResolvedAt(k)

C6_Witness ==
    /\ pc = "done"
    /\ \E k \in LineIdx :
        /\ StartLine(At(lines, k)) /\ HasSepBeforeFirstEnd(lines, k) /\ ResolvedAt(k)
        /\ \E r \in RegionIdx : regions[r].s = k /\ At(lines, regions[r].e) = LineIndentEnd

(* C7: when the scan is on a start line for which the marker search finds no
   separator before the first end-marker line, that line is pushed
   unchanged, i advances by exactly one and nothing else of the scan
   changes; and a text with no end-marker line at all is returned unchanged
   for every policy. *)
C7_MalformedNoOp ==
    /\ [][(pc = "scan" /\ i < Len(lines) /\ StartLine(At(lines, i))
            /\ ~HasSepBeforeFirstEnd(lines, i))
          => (/\ i' = i + 1
              /\ resolvedLines' = Append(resolvedLines, At(lines, i))
              /\ regions' = regions
              /\ lines' = lines
              /\ pc' = "scan")]_vars
    /\ []((pc = "done" /\ \A k \in LineIdx : ~EndLine(At(lines, k))) => result = content)

C7_Witness ==
    /\ pc = "done"
    /\ \A k \in LineIdx : ~EndLine(At(lines, k))
    /\ \E k \in LineIdx : StartLine(At(lines, k)) /\ HasSepThenEnd(lines, k) = FALSE
    /\ \E k \in LineIdx : SepLine(At(lines, k))
    /\ result = content

(* C8: for every text in which no line starts with <<<<<<<, the empty text
   included, and every policy, the resolved text is exactly the input. *)
C8_ConflictFreeIdentity ==
    (pc = "done" /\ \A k \in LineIdx : ~StartLine(At(lines, k))) => result = content

C8_Witness ==
    /\ pc = "done"
    /\ \A k \in LineIdx : ~StartLine(At(lines, k))
    /\ Len(lines) = 3
    /\ At(lines, 0) = LineMidStart /\ SepLine(At(lines, 1)) /\ EndLine(At(lines, 2))
    /\ result = content

(* C9 (as stated): the conflict count of a text is the number of its lines
   that start with <<<<<<<. *)
C9_CountIsStartLines ==
    pc # "idle" =>
        conflictCount =
            Cardinality({k \in 0..(Len(Split(content)) - 1) : StartLine(At(Split(content), k))})

(* C10 (as stated): for every text in which each start line has a separator
   and then an end marker after it, and every policy, the conflict count of
   the resolved text is 0. *)
C10_ResolvedCountZeroAsStated ==
    (pc = "final" /\ WellFormedText(lines)) => resolvedCount = 0

(* C10 (amended): for every text whose marker lines occur only in the order
   start, separator, end, start, ..., closing on an end marker, and in which
   <<<<<<< occurs on no line other than those start lines, and every policy,
   the conflict count of the resolved text is 0. *)
C10_ResolvedCountZero ==
    (/\ pc = "final"
     /\ Canonical(lines)
     /\ \A k \in LineIdx : Includes(At(lines, k), StartMarker) => StartLine(At(lines, k)))
        => resolvedCount = 0

C10_Witness ==
    /\ pc = "final"
    /\ Canonical(lines)
    /\ \A k \in LineIdx : Includes(At(lines, k), StartMarker) => StartLine(At(lines, k))
    /\ Len(regions) = 1
    /\ conflictCount = 1
    /\ resolvedCount = 0
    /\ result # <<>>

(* C11 (as stated): hasConflicts is true exactly when the text has a line
   with the start marker, a line EQUAL to the separator marker ======= and a
   line with the end marker. *)
C11_HasConflictsAsStated ==
    pc # "idle" =>
        (detected <=>
            LET ls == Split(content) IN
            /\ \E k \in DOMAIN ls : Includes(ls[k], StartMarker)
            /\ \E k \in DOMAIN ls : ls[k] = SepMarker
            /\ \E k \in DOMAIN ls : Includes(ls[k], EndMarker))

(* C11 (amended): hasConflicts is true exactly when the text has a line
   containing <<<<<<<, a line containing ======= and a line containing
   >>>>>>>, each looked for anywhere in a line and independently of the
   others and of any region structure. *)
C11_HasConflicts ==
    pc # "idle" =>
        (detected <=>
            LET ls == Split(content) IN
            /\ \E k \in DOMAIN ls : Includes(ls[k], StartMarker)
            /\ \E k \in DOMAIN ls : Includes(ls[k], SepMarker)
            /\ \E k \in DOMAIN ls : Includes(ls[k], EndMarker))

C11_Witness ==
    /\ pc = "counted"
    /\ detected
    /\ LET ls == Split(content) IN
        /\ Len(ls) = 3
        /\ ls[1] = LineEnd /\ ls[2] = LineIndentSep /\ ls[3] = LineMidStart

(* C13: for every text and policy the call terminates with a text; on
   every iteration the scan index strictly increases, by one for a line
   pushed as it is and to endIndex + 1 for a resolved region, and never
   moves backwards. *)
C13_Termination ==
    /\ [][(pc = "scan" /\ pc' = "scan") =>
            /\ i' > i
            /\ \/ (regions' = regions /\ i' = i + 1)
               \/ (/\ Len(regions') = Len(regions) + 1
                   /\ regions'[Len(regions')].e >= i
                   /\ i' = regions'[Len(regions')].e + 1)]_vars
    /\ [][pc = "scan" => i' >= i]_vars
    /\ (pc = "idle") ~> (pc = "done" /\ i = Len(lines))

C13_Witness ==
    /\ pc = "done"
    /\ Len(regions) = 1
    /\ regions[1].s = 1
    /\ i = Len(lines)

(* the output rebuilt from the input and the resolved regions: outside a
   region the line itself, at a region start the lines of one side *)
SideLines(r, ch) ==
    IF ch = "current" THEN SubSeq(lines, regions[r].s + 2, regions[r].m)
    ELSE SubSeq(lines, regions[r].m + 2, regions[r].e)

RECURSIVE ExpectedFrom(_, _)
ExpectedFrom(k, ch) ==
    IF k >= Len(lines) THEN <<>>
    ELSE IF \E r \in RegionIdx : regions[r].s = k
         THEN LET r == CHOOSE r \in RegionIdx : regions[r].s = k IN
              SideLines(r, ch) \o ExpectedFrom(regions[r].e + 1, ch)
         ELSE <<At(lines, k)>> \o ExpectedFrom(k + 1, ch)

RECURSIVE IsSubsequence(_, _)
IsSubsequence(a, b) ==
    IF a = <<>> THEN TRUE
    ELSE IF b = <<>> THEN FALSE
    ELSE IF Head(a) = Head(b) THEN IsSubsequence(Tail(a), Tail(b))
    ELSE IsSubsequence(a, Tail(b))

(* C14: under current and incoming the output lines are exactly the lines
   outside the regions interleaved, in input order, with the lines of the
   chosen side of each resolved region; so the output is a subsequence of
   the input lines. *)
C14_Conservation ==
    (pc = "done" /\ choice \in {"current", "incoming"}) =>
        /\ resolvedLines = ExpectedFrom(0, choice)
        /\ IsSubsequence(resolvedLines, lines)

C14_Witness ==
    /\ pc = "done"
    /\ choice = "incoming"
    /\ Len(regions) = 1
    /\ regions[1].s = 1
    /\ regions[1].e > regions[1].m + 1
    /\ Len(lines) = regions[1].e + 2

(* C15: after a region is resolved the scan resumes on the line right after
   its end marker; the resolved regions are pairwise disjoint and in input
   order, so no line of a later region lies inside an earlier one. *)
C15_SequentialRegions ==
    /\ [][Len(regions') = Len(regions) + 1 =>
            i' = regions'[Len(regions')].e + 1]_vars
    /\ [](\A r1, r2 \in RegionIdx : r1 < r2 => regions[r1].e < regions[r2].s)

C15_Witness ==
    /\ pc = "done"
    /\ Len(regions) = 2
    /\ regions[2].s = regions[1].e + 1

(* C16: a marker-like line strictly inside a side of a resolved region is
   not the start, separator or end of any region; it is copied verbatim
   when its side is selected and dropped when it is not. *)
SideSelected(k, r) ==
    \/ choice \in {"current", "both"} /\ k < regions[r].m
    \/ choice \in {"incoming", "both"} /\ k > regions[r].m

C16_OpaqueContent ==
    pc = "done" =>
        \A r \in RegionIdx : \A k \in (regions[r].s + 1)..(regions[r].e - 1) :
            (k # regions[r].m /\ (StartLine(At(lines, k)) \/ SepLine(At(lines, k))))
            => /\ \A r2 \in RegionIdx : k \notin {regions[r2].s, regions[r2].m, regions[r2].e}
               /\ SideSelected(k, r) =>
                    /\ Cardinality({n \in DOMAIN origin : origin[n] = k}) = 1
                    /\ \A n \in DOMAIN origin : origin[n] = k => resolvedLines[n] = At(lines, k)
               /\ ~SideSelected(k, r) => \A n \in DOMAIN origin : origin[n] # k

C16_Witness ==
    /\ pc = "done"
    /\ choice = "current"
    /\ Len(regions) = 1
    /\ regions[1].m > regions[1].s + 1
    /\ StartLine(At(lines, regions[1].s + 1))
    /\ \E n \in DOMAIN resolvedLines : StartLine(resolvedLines[n])

(* C18 (as stated): the end marker of a region is a line that starts with
   >>>>>>> at column 0, the first such line after the start marker; a line
   with whitespace before >>>>>>> does not close a region. *)
C18_EndMarkerAsStated ==
    \A r \in RegionIdx :
        /\ StartsWith(At(lines, regions[r].e), EndMarker)
        /\ \A k \in (regions[r].s + 1)..(regions[r].e - 1) : ~StartsWith(At(lines, k), EndMarker)

(* C18 (amended): a line is recognised as the end marker of a region if and
   only if its TRIMMED value starts with >>>>>>>: the region is closed by
   the first such line after the start marker, with or without leading
   whitespace, and a start line that no such line follows is not resolved. *)
C18_EndMarker ==
    /\ \A r \in RegionIdx :
        /\ StartsWith(Trim(At(lines, regions[r].e)), EndMarker)
        /\ \A k \in (regions[r].s + 1)..(regions[r].e - 1) :
            ~StartsWith(Trim(At(lines, k)), EndMarker)
    /\ pc = "done" =>
        \A k \in LineIdx :
            (StartLine(At(lines, k)) /\ ~Interior(k)
                /\ \A j \in (k + 1)..(Len(lines) - 1) : ~StartsWith(Trim(At(lines, j)), EndMarker))
            => \A r \in RegionIdx : regions[r].s # k

C18_Witness ==
    /\ pc = "done"
    /\ Len(regions) = 1
    /\ At(lines, regions[1].e) = LineIndentEnd
    /\ Len(lines) = regions[1].e + 2
    /\ At(lines, regions[1].e + 1) = LineEnd

(* C12 (as stated): a resolved text that still contains a marker line is
   never stored in this.resolvedContent nor reported as resolved and copied
   like a fully resolved text. *)
HasMarkerLine(text) ==
    \E n \in DOMAIN Split(text) : MarkerFormLine(Split(text)[n])

C12_DefensivePostcondition ==
    /\ resolvedContent # Undefined => ~HasMarkerLine(resolvedContent)
    /\ status.kind = "copied" => ~HasMarkerLine(clipboard)

(* C19: no button click and no clipboard completion changes the text of the
   editor textarea. *)
C19_EditorReadOnly == [][content' = content]_vars

C19_Witness ==
    /\ Includes(content, StartMarker)
    /\ ~Falsy(resolvedContent)
    /\ resolvedContent # content
    /\ clipboard = resolvedContent
    /\ display = escapeHtml(resolvedContent)
    /\ status.kind = "copied"

(* C20 (as stated): after an Accept or Keep Both click on a text containing
   a start marker this.resolvedContent holds the resolved text whatever the
   outcome of the copy, and a later Show Resolved click displays that text
   and does not show the 'No resolved content available' warning. *)
C20_ShowAfterResolve ==
    /\ [](resolvedContent # Undefined => resolvedContent = processConflicts(content, choice))
    /\ [][(ShowResolved /\ resolvedContent # Undefined) =>
            /\ display' = escapeHtml(resolvedContent)
            /\ status' = status]_vars

(* C21: for every resolved region the indices satisfy start < separator <
   end, the end marker is the first line after the start marker whose
   trimmed value starts with >>>>>>>, and the marker search does not depend
   on any line after that first end marker. *)
C21_RegionStructure ==
    \A r \in RegionIdx :
        LET s == regions[r].s
            m == regions[r].m
            e == regions[r].e
        IN  /\ 0 <= s /\ s < m /\ m < e /\ e < Len(lines)
            /\ StartLine(At(lines, s))
            /\ SepLine(At(lines, m))
            /\ EndLine(At(lines, e))
            /\ \A k \in (s + 1)..(e - 1) : ~EndLine(At(lines, k))
            /\ findConflictBoundaries(SubSeq(lines, 1, e + 1), s)
                    = [middleIndex |-> m, endIndex |-> e]

C21_Witness ==
    /\ pc = "done"
    /\ Len(regions) = 1
    /\ regions[1].e = regions[1].s + 2
    /\ Len(lines) = regions[1].e + 2
    /\ SepLine(At(lines, regions[1].e + 1))

(* C22: there are texts for which hasConflicts is true although no start
   line has a separator before the first end marker after it; for every
   such text and every policy no region is resolved and the resolved text is
   the input text. *)
NoWellFormedRegion(ls) ==
    \A k \in 0..(Len(ls) - 1) : ~(StartLine(At(ls, k)) /\ HasSepBeforeFirstEnd(ls, k))

C22_FalsePositive ==
    (pc = "done" /\ detected /\ NoWellFormedRegion(lines)) =>
        /\ regions = <<>>
        /\ result = content
        /\ \A p \in Policies : processConflicts(content, p) = content

C22_Witness ==
    /\ pc = "done"
    /\ detected
    /\ NoWellFormedRegion(lines)
    /\ Len(lines) = 3
    /\ StartLine(At(lines, 0)) /\ EndLine(At(lines, 1)) /\ SepLine(At(lines, 2))
    /\ result = content

(* C23: when the editor text does not contain <<<<<<<, a click on Accept All
   Current, Accept All Incoming or Keep Both sets the status to 'No
   conflicts found' and leaves this.resolvedContent and the clipboard
   unchanged; no copy is started. *)
C23_NoConflictsGuard ==
    [][\A ch \in Policies :
        (~Includes(content, StartMarker) /\ ResolveConflicts(ch)) =>
            /\ status' = [kind |-> "noConflicts", choice |-> "none"]
            /\ resolvedContent' = resolvedContent
            /\ clipboard' = clipboard
            /\ pending' = pending]_vars

C23_Witness ==
    /\ content # <<>>
    /\ ~Includes(content, StartMarker)
    /\ choice = "both"
    /\ status.kind = "noConflicts"
    /\ resolvedContent = Undefined
    /\ clipboard = <<>>
    /\ pending = <<>>

(* C24 (as stated): the status reports that the content was copied only if
   the clipboard write of the completed copy succeeded, by the clipboard API
   or by the fallback; when both fail the status is the copy-failed
   warning. *)
CopiedKinds == {"copied", "contentCopied"}

C24_TruthfulCopyStatus ==
    [][(ClipboardWritten \/ ClipboardRejected) =>
        /\ status'.kind \in CopiedKinds =>
                clipboard' \in {pending[n].content : n \in DOMAIN pending} \cup {resolvedContent}
        /\ clipboard' \notin {pending[n].content : n \in DOMAIN pending} \cup {resolvedContent} =>
                status'.kind = "copyFailed"]_vars

(* C25 (as stated): when the editor text has no labelled conflict marker and
   some branch selector matches at least two page elements, detectBranches
   ends with this.currentBranch and this.incomingBranch equal to the names
   read from those elements. *)
C25_BranchFallback ==
    (/\ pc = "detected"
     /\ localCurrent = NameCurrent
     /\ localIncoming = NameIncoming
     /\ FirstSelector(page) # 0) =>
        /\ currentBranch = TextOrDefault(page[FirstSelector(page)][1], NameCurrent)
        /\ incomingBranch = TextOrDefault(page[FirstSelector(page)][2], NameIncoming)

(* C26: whenever hasConflicts is true of the editor text the conflict count
   of that text is at least 1, so a status 'n conflicts detected' built from
   the two never has n = 0. *)
C26_CountConsistent ==
    pc = "counted" =>
        /\ detected => conflictCount >= 1
        /\ hasConflicts(content) => getConflictCount(content) >= 1

C26_Witness ==
    /\ pc = "counted"
    /\ detected
    /\ conflictCount = 2
    /\ \A k \in DOMAIN Split(content) : ~StartLine(Split(content)[k])

(* the regions a run of the scan resolves under policy ch: a step of the
   loop is a resolve step when it does not push the line it is on *)
RECURSIVE RegionsLoop(_, _, _, _)
RegionsLoop(ls, ch, st, acc) ==
    IF st.i >= Len(ls) THEN acc
    ELSE LET b   == findConflictBoundaries(ls, st.i)
             nxt == ScanStep(ls, ch, st)
         IN  RegionsLoop(ls, ch, nxt,
                IF nxt.origin = Append(st.origin, st.i) THEN acc
                ELSE Append(acc, [s |-> st.i, m |-> b.middleIndex, e |-> b.endIndex]))

RegionsOf(ls, ch) == RegionsLoop(ls, ch, [i |-> 0, out |-> <<>>, origin |-> <<>>], <<>>)

LinesOut(ls, ch) == ScanLoop(ls, ch, [i |-> 0, out |-> <<>>, origin |-> <<>>]).out

PassThroughCount == Cardinality({k \in LineIdx : ~InRegion(k)})

(* C27: for every text the (start, separator, end) triples resolved are the
   same under current, incoming and both, and the numbers of output lines
   satisfy |both| + (number of pass-through lines) = |current| + |incoming|,
   an output being counted by the lines emitted for it. *)
C27_PolicyIndependentRegions ==
    pc = "done" =>
        /\ \A p \in Policies : RegionsOf(lines, p) = regions
        /\ Len(LinesOut(lines, "both")) + PassThroughCount
                = Len(LinesOut(lines, "current")) + Len(LinesOut(lines, "incoming"))
        /\ Len(resolvedLines) = Len(LinesOut(lines, choice))

C27_Witness ==
    /\ pc = "done"
    /\ choice = "both"
    /\ Len(regions) = 1
    /\ regions[1].m > regions[1].s + 1
    /\ regions[1].e > regions[1].m + 1
    /\ PassThroughCount = 1
    /\ Len(resolvedLines) = 3

(* C28: for every text and for the policies current and incoming, the
   processConflicts of content.js and those of the two variants under
   src/unnamed return the same text. *)
C28_VariantEquivalence ==
    (pc = "done" /\ choice \in {"current", "incoming"}) =>
        /\ result = processConflictsPart000(content, choice)
        /\ result = processConflictsPart001(content, choice)

C28_Witness ==
    /\ pc = "done"
    /\ choice = "incoming"
    /\ Len(regions) = 1
    /\ regions[1].e > regions[1].m + 1
    /\ result # content
    /\ result # <<>>
    /\ result = processConflictsPart000(content, choice)

(* C29: with a choice that is none of current, incoming, both, the
   processConflicts of content.js emits nothing for a resolved region and
   passes every other line through, while the two-policy variants return
   what they return for incoming. *)
C29_OtherChoice ==
    (pc = "done" /\ choice \notin Policies) =>
        /\ \A n \in DOMAIN origin : ~InRegion(origin[n])
        /\ origin = SelectSeq([k \in 1..Len(lines) |-> k - 1], LAMBDA k : ~InRegion(k))
        /\ resolvedLines = [n \in DOMAIN origin |-> At(lines, origin[n])]
        /\ result = Join(resolvedLines)
        /\ processConflictsPart000(content, choice) = processConflictsPart000(content, "incoming")
        /\ processConflictsPart001(content, choice) = processConflictsPart001(content, "incoming")
        /\ processConflictsPart000(content, choice) = processConflicts(content, "incoming")
        /\ processConflictsPart001(content, choice) = processConflicts(content, "incoming")

C29_Witness ==
    /\ pc = "done"
    /\ choice \notin Policies
    /\ Len(regions) = 1
    /\ regions[1].m > regions[1].s + 1
    /\ regions[1].e > regions[1].m + 1
    /\ Len(resolvedLines) = 1
    /\ processConflictsPart000(content, choice) # result

(* C30 (as stated): for every interleaving of clicks and clipboard
   completions, when the last copy in flight completes with a successful
   write, the clipboard text is this.resolvedContent and the status names
   the choice of the most recent click. *)
C30_NoStaleClipboard ==
    [][(ClipboardWritten /\ pending' = <<>>) =>
        /\ clipboard' = resolvedContent
        /\ status'.choice \in {choice, "manual"}]_vars

====
